---- MODULE Spec2Model ----
(***************************************************************************)
(* A model of AFML's FocusManager (AFML/src/FocusManager.cpp): the public  *)
(* entry points, which run on a caller thread, the executor's queue, and   *)
(* the helpers, which run on the executor's single worker thread.          *)
(*                                                                         *)
(* Channel (AFML/src/Channel.cpp) and Executor are not among the sources   *)
(* under study; their operations are modelled from their contracts.        *)
(***************************************************************************)
EXTENDS Integers, Sequences, FiniteSets, TLC

\* ------------------------------------------------------------------ bounds
\* submit is refused while the executor's queue holds MaxQueue tasks that have
\* not started.
MaxQueue == 1

\* ------------------------------------------------------------ input values
FOREGROUND == "FOREGROUND"
BACKGROUND == "BACKGROUND"
NONE       == "NONE"
FocusState == {FOREGROUND, BACKGROUND, NONE}

\* nullptr, as a shared_ptr<Channel> and as a shared_ptr<ChannelObserverInterface>.
NullChannel  == "nullptr"
NullObserver == "nullobs"

\* The empty activity id.
EmptyId == ""

\* An activity that asks for focus: an observer and its activity id.
Activity1 == [observer |-> "O1", id |-> "a1"]
Activity2 == [observer |-> "O2", id |-> "a2"]

\* The environments a run starts in: the channelConfigurations handed to the
\* constructor, and the activities that call the manager.
Environments ==
    { [config  |-> << [name |-> "Dialog",  priority |-> 100],
                      [name |-> "Content", priority |-> 300] >>,
       clients |-> {Activity1}],
      [config  |-> << [name |-> "Content", priority |-> 300] >>,
       clients |-> {Activity1, Activity2}] }

\* ------------------------------------------------------------------- state
VARIABLES
    channelConfigurations, \* the constructor's argument
    m_allChannels,    \* FocusManager::m_allChannels, as a set of (name, priority)
    clients,          \* the activities of the environment
    focus,            \* Channel::m_focusState, per channel
    observer,         \* Channel::m_currentObserver, per channel
    activityId,       \* Channel::m_currentActivityId, per channel
    m_activeChannels, \* FocusManager::m_activeChannels
    queue,            \* the executor's tasks that have not started
    task,             \* the task the worker thread is running
    pc,               \* the worker thread's position in that task
    local,            \* the running helper's locals
    promise,          \* the running release task's promise
    stopCaller,       \* what the caller thread holds inside stopForegroundActivity,
                      \* between lock.unlock() and submitToFront
    ret,              \* the caller thread's last call and what it returned; for
                      \* releaseChannel, the state of the future at the return
    log,              \* the observer callbacks the running task has made, in order
    lastSeen,         \* per channel and observer, the last state delivered
    roundTrip         \* the channel and observer of the last acquire task and the
                      \* active set it found, until another task than the release
                      \* of that channel by that observer has run

vars == << channelConfigurations, m_allChannels, clients, focus, observer, activityId,
           m_activeChannels, queue, task, pc, local, promise, stopCaller, ret, log,
           lastSeen, roundTrip >>

envVars == << channelConfigurations, m_allChannels, clients >>

chanVars == << focus, observer, activityId, m_activeChannels >>

NoTask == [kind |-> "none", channel |-> NullChannel, observer |-> NullObserver,
           activityId |-> EmptyId, afterStopOf |-> NullChannel]

\* lock is TRUE while the helper's std::unique_lock owns m_mutex.
NoLocal == [foregroundChannel |-> NullChannel, wasForegrounded |-> FALSE,
            channelToForeground |-> NullChannel, lock |-> FALSE]

NoRoundTrip == [channel |-> NullChannel, observer |-> NullObserver, active |-> {}]

\* afterStopOf is not in the code: it records, for a stopForegroundActivity call
\* that directly follows another one, the channel name that one captured ("" when
\* it found no channel active), and nullptr for any other call.
NoSnapshot == [channel |-> NullChannel, activityId |-> EmptyId, afterStopOf |-> NullChannel]

\* The caller thread's record of a call: the entry point, the channel name it
\* was given (for stopForegroundActivity, the name of the channel it captured,
\* "" when it found none), and the value returned ("none" while the call is in
\* progress, "void" for a call that returns nothing).
Returned(op, name, value) == [op |-> op, name |-> name, value |-> value]

\* ------------------------------------------------------------- constructor
\* FocusManager::doesChannelNameExist
doesChannelNameExist(all, name) == \E c \in all : c.name = name

\* A doesChannelPriorityExist that never finds the priority.
doesChannelPriorityExistNever(all, priority) == FALSE

\* FocusManager::doesChannelPriorityExist
doesChannelPriorityExist(all, priority) == \E c \in all : c.priority = priority

\* FocusManager::FocusManager: the entries are visited in order; an entry whose
\* name or priority is already registered is skipped.
RECURSIVE Construct(_, _)
Construct(all, configs) ==
    IF configs = << >> THEN all
    ELSE LET config == Head(configs) IN
         IF doesChannelNameExist(all, config.name)
            THEN Construct(all, Tail(configs))
         ELSE IF doesChannelPriorityExist(all, config.priority)
            THEN Construct(all, Tail(configs))
         ELSE Construct(all \cup {config}, Tail(configs))

\* A channel is identified by the name it is registered under.
Channels == {c.name : c \in m_allChannels}

\* The names the callers pass in: the registered ones and one that is not.
ChannelNames == Channels \cup {"Unknown"}

Observers == {a.observer : a \in clients}

\* Channel::getPriority
getPriority(ch) == (CHOOSE c \in m_allChannels : c.name = ch).priority

\* A getChannel that hands back a registered channel for a name that is not
\* registered.
getChannelAnyName(channelName) ==
    IF doesChannelNameExist(m_allChannels, channelName) THEN channelName
    ELSE (CHOOSE c \in m_allChannels : TRUE).name

\* FocusManager::getChannel
getChannel(channelName) ==
    IF doesChannelNameExist(m_allChannels, channelName) THEN channelName ELSE NullChannel

\* Channel::operator> : a > b iff a has the higher priority, which is the lower
\* number.
ChannelGreater(a, b) == getPriority(a) < getPriority(b)

\* FocusManager::getHighestPriorityActiveChannelLocked: the first element of the
\* set ordered highest priority first, or nullptr.
getHighestPriorityActiveChannelLocked(active) ==
    IF active = {} THEN NullChannel
    ELSE CHOOSE c \in active : \A d \in active \ {c} : ChannelGreater(c, d)

\* FocusManager::isChannelForegroundedLocked
isChannelForegroundedLocked(active, channel) ==
    getHighestPriorityActiveChannelLocked(active) = channel

Init ==
    \E env \in Environments :
        /\ channelConfigurations = env.config
        /\ m_allChannels = Construct({}, env.config)
        /\ clients = env.clients
        /\ focus = [c \in Channels |-> NONE]
        /\ observer = [c \in Channels |-> NullObserver]
        /\ activityId = [c \in Channels |-> EmptyId]
        /\ m_activeChannels = {}
        /\ queue = << >>
        /\ task = NoTask
        /\ pc = "idle"
        /\ local = NoLocal
        /\ promise = "none"
        /\ stopCaller = NoSnapshot
        /\ ret = Returned("none", "", "none")
        /\ log = << >>
        /\ lastSeen = [c \in Channels |-> [o \in Observers |-> "never"]]
        /\ roundTrip = NoRoundTrip

\* ----------------------------------------------------------------- Channel
\* The part of the state Channel's methods read and write.
World == [focus |-> focus, observer |-> observer, log |-> log, lastSeen |-> lastSeen]

\* ChannelObserverInterface::onFocusChanged(s), called by channel c on observer o.
onFocusChanged(w, c, o, s) ==
    [w EXCEPT !.log = Append(@, << c, o, s >>), !.lastSeen[c][o] = s]

\* Channel::setFocus: nothing when the state is the cached one; else the cached
\* state is updated and the current observer is invoked with it.
setFocus(w, c, s) ==
    IF w.focus[c] = s THEN w
    ELSE LET w1 == [w EXCEPT !.focus[c] = s] IN
         IF w.observer[c] # NullObserver
            THEN onFocusChanged(w1, c, w.observer[c], s)
            ELSE w1

\* Channel::setObserver: a previous observer is told NONE, then the new observer
\* is installed at the cached focus state.
setObserver(w, c, o) ==
    LET w1 == IF w.observer[c] # NullObserver
                 THEN onFocusChanged(w, c, w.observer[c], NONE)
                 ELSE w
    IN  [w1 EXCEPT !.observer[c] = o]

\* Channel::doesObserverOwnChannel
doesObserverOwnChannel(c, o) == observer[c] = o

\* Channel::stopActivity: TRUE iff the channel's activity id is the argument.
stopActivity(c, id) == activityId[c] = id

\* The worker thread writes a world back to the state.
Commit(w) ==
    /\ focus' = w.focus
    /\ observer' = w.observer
    /\ log' = w.log
    /\ lastSeen' = w.lastSeen

worldVars == << focus, observer, log, lastSeen >>

\* ---------------------------------------------------------------- Executor
\* Executor::submit appends a task.
submit(q, t) == Append(q, t)

\* Executor::submitToFront puts a task ahead of those that have not started.
submitToFront(q, t) == << t >> \o q

\* The worker thread takes the task at the front of the queue once the task
\* before it has returned.
Dequeue ==
    /\ pc = "idle"
    /\ queue # << >>
    /\ task' = Head(queue)
    /\ queue' = Tail(queue)
    /\ pc' = Head(queue).kind
    /\ local' = NoLocal
    /\ promise' = IF Head(queue).kind = "release" THEN "unset" ELSE "none"
    /\ UNCHANGED << envVars, chanVars, stopCaller, ret, log, lastSeen, roundTrip >>

\* The task returns and the worker thread goes back to the queue; the task's
\* closure, with the promise it holds, is destroyed.
Finish ==
    /\ pc = "done"
    /\ pc' = "idle"
    /\ task' = NoTask
    /\ local' = NoLocal
    /\ promise' = "none"
    /\ log' = << >>
    /\ roundTrip' = IF task.kind = "acquire" THEN roundTrip ELSE NoRoundTrip
    /\ UNCHANGED << envVars, chanVars, queue, stopCaller, ret, lastSeen >>

\* std::promise::set_value
set_value(p, v) == IF p = "unset" THEN v ELSE "twice"

\* ------------------------------------- the public entry points, on the caller
\* FocusManager::acquireChannel
acquireChannel(channelName, channelObserver, id) ==
    /\ stopCaller = NoSnapshot
    /\ LET channelToAcquire == getChannel(channelName) IN
       IF channelToAcquire = NullChannel
          THEN /\ ret' = Returned("acquireChannel", channelName, "false")
               /\ UNCHANGED queue
          ELSE /\ Len(queue) < MaxQueue
               /\ queue' = submit(queue, [kind |-> "acquire", channel |-> channelToAcquire,
                                          observer |-> channelObserver, activityId |-> id,
                                          afterStopOf |-> NullChannel])
               /\ ret' = Returned("acquireChannel", channelName, "true")
    /\ UNCHANGED << envVars, chanVars, task, pc, local, promise, stopCaller, log, lastSeen,
                    roundTrip >>

\* FocusManager::releaseChannel
releaseChannel(channelName, channelObserver) ==
    /\ stopCaller = NoSnapshot
    /\ LET channelToRelease == getChannel(channelName) IN
       IF channelToRelease = NullChannel
          THEN /\ ret' = Returned("releaseChannel", channelName, set_value("unset", "false"))
               /\ UNCHANGED queue
          ELSE /\ Len(queue) < MaxQueue
               /\ queue' = submit(queue, [kind |-> "release", channel |-> channelToRelease,
                                          observer |-> channelObserver,
                                          activityId |-> EmptyId,
                                          afterStopOf |-> NullChannel])
               /\ ret' = Returned("releaseChannel", channelName, "unset")
    /\ UNCHANGED << envVars, chanVars, task, pc, local, promise, stopCaller, log, lastSeen,
                    roundTrip >>

\* FocusManager::stopForegroundActivity, up to lock.unlock(): the foreground
\* channel and its activity id are captured under the mutex.
stopForegroundActivityCapture ==
    /\ stopCaller = NoSnapshot
    /\ ~local.lock
    /\ LET foregroundChannel == getHighestPriorityActiveChannelLocked(m_activeChannels) IN
       IF foregroundChannel = NullChannel
          THEN /\ ret' = Returned("stopForegroundActivity", "", "void")
               /\ UNCHANGED stopCaller
          ELSE /\ stopCaller' = [channel |-> foregroundChannel,
                                 activityId |-> activityId[foregroundChannel],
                                 afterStopOf |-> IF ret.op = "stopForegroundActivity"
                                                    THEN ret.name ELSE NullChannel]
               /\ ret' = Returned("stopForegroundActivity", foregroundChannel, "none")
    /\ UNCHANGED << envVars, chanVars, queue, task, pc, local, promise, log, lastSeen,
                    roundTrip >>

\* A stopForegroundActivity that hands its task to Executor::submit.
stopForegroundActivitySubmitToBack ==
    /\ stopCaller # NoSnapshot
    /\ Len(queue) <= MaxQueue
    /\ queue' = submit(queue, [kind |-> "stop", channel |-> stopCaller.channel,
                               observer |-> NullObserver,
                               activityId |-> stopCaller.activityId,
                               afterStopOf |-> stopCaller.afterStopOf])
    /\ ret' = Returned("stopForegroundActivity", stopCaller.channel, "void")
    /\ stopCaller' = NoSnapshot
    /\ UNCHANGED << envVars, chanVars, task, pc, local, promise, log, lastSeen, roundTrip >>

\* FocusManager::stopForegroundActivity, the submitToFront after the unlock.
stopForegroundActivitySubmit ==
    /\ stopCaller # NoSnapshot
    /\ Len(queue) <= MaxQueue
    /\ queue' = submitToFront(queue, [kind |-> "stop", channel |-> stopCaller.channel,
                                      observer |-> NullObserver,
                                      activityId |-> stopCaller.activityId,
                                      afterStopOf |-> stopCaller.afterStopOf])
    /\ ret' = Returned("stopForegroundActivity", stopCaller.channel, "void")
    /\ stopCaller' = NoSnapshot
    /\ UNCHANGED << envVars, chanVars, task, pc, local, promise, log, lastSeen, roundTrip >>

\* ------------------------------------------- the helpers, on the worker thread
\* An acquireChannelHelper without the lock.unlock(): the mutex stays owned
\* until the helper returns.
acquireChannelHelperLockedNoUnlock ==
    /\ pc = "acquire"
    /\ local' = [local EXCEPT !.foregroundChannel =
                                   getHighestPriorityActiveChannelLocked(m_activeChannels),
                               !.lock = TRUE]
    /\ activityId' = [activityId EXCEPT ![task.channel] = task.activityId]
    /\ m_activeChannels' = m_activeChannels \cup {task.channel}
    /\ roundTrip' = [channel |-> task.channel, observer |-> task.observer,
                     active |-> m_activeChannels]
    /\ pc' = "acquire_notify"
    /\ UNCHANGED << envVars, focus, observer, queue, task, promise, stopCaller, ret,
                    log, lastSeen >>

\* FocusManager::acquireChannelHelper, the part under the mutex.
acquireChannelHelperLocked ==
    /\ pc = "acquire"
    /\ local' = [local EXCEPT !.foregroundChannel =
                                   getHighestPriorityActiveChannelLocked(m_activeChannels),
                               !.lock = FALSE]
    /\ activityId' = [activityId EXCEPT ![task.channel] = task.activityId]
    /\ m_activeChannels' = m_activeChannels \cup {task.channel}
    /\ roundTrip' = [channel |-> task.channel, observer |-> task.observer,
                     active |-> m_activeChannels]
    /\ pc' = "acquire_notify"
    /\ UNCHANGED << envVars, focus, observer, queue, task, promise, stopCaller, ret,
                    log, lastSeen >>

\* An acquireChannelHelper that does not move the channel it preempts to
\* BACKGROUND.
acquireFocusNoBackground(w, channelToAcquire, foregroundChannel) ==
    IF foregroundChannel = NullChannel
       THEN setFocus(w, channelToAcquire, FOREGROUND)
    ELSE IF foregroundChannel = channelToAcquire
       THEN setFocus(w, channelToAcquire, FOREGROUND)
    ELSE IF ChannelGreater(channelToAcquire, foregroundChannel)
       THEN setFocus(w, channelToAcquire, FOREGROUND)
    ELSE setFocus(w, channelToAcquire, BACKGROUND)

\* The focus changes acquireChannelHelper makes after setObserver.
acquireFocus(w, channelToAcquire, foregroundChannel) ==
    IF foregroundChannel = NullChannel
       THEN setFocus(w, channelToAcquire, FOREGROUND)
    ELSE IF foregroundChannel = channelToAcquire
       THEN setFocus(w, channelToAcquire, FOREGROUND)
    ELSE IF ChannelGreater(channelToAcquire, foregroundChannel)
       THEN setFocus(setFocus(w, foregroundChannel, BACKGROUND),
                     channelToAcquire, FOREGROUND)
    ELSE setFocus(w, channelToAcquire, BACKGROUND)

\* An acquireChannelHelper that changes the focus before it installs the
\* observer.
acquireChannelHelperNotifyFocusFirst ==
    /\ pc = "acquire_notify"
    /\ Commit(setObserver(acquireFocus(World, task.channel, local.foregroundChannel),
                          task.channel, task.observer))
    /\ pc' = "done"
    /\ UNCHANGED << envVars, activityId, m_activeChannels, queue, task, local, promise,
                    stopCaller, ret, roundTrip >>

\* FocusManager::acquireChannelHelper, after the unlock.
acquireChannelHelperNotify ==
    /\ pc = "acquire_notify"
    /\ Commit(acquireFocus(setObserver(World, task.channel, task.observer),
                           task.channel, local.foregroundChannel))
    /\ pc' = "done"
    /\ UNCHANGED << envVars, activityId, m_activeChannels, queue, task, local, promise,
                    stopCaller, ret, roundTrip >>

\* A releaseChannelHelper without the return after the failed ownership test.
releaseChannelHelperLockedNoReturn ==
    /\ pc = "release"
    /\ promise' = set_value(promise, IF doesObserverOwnChannel(task.channel, task.observer)
                                        THEN "true" ELSE "false")
    /\ local' = [local EXCEPT !.wasForegrounded =
                     isChannelForegroundedLocked(m_activeChannels, task.channel)]
    /\ m_activeChannels' = m_activeChannels \ {task.channel}
    /\ pc' = "release_notify"
    /\ UNCHANGED << envVars, focus, observer, activityId, queue, task, stopCaller, ret,
                    log, lastSeen, roundTrip >>

\* A releaseChannelHelper that returns after the failed ownership test without
\* setting the promise.
releaseChannelHelperLockedNoSetValue ==
    /\ pc = "release"
    /\ IF ~doesObserverOwnChannel(task.channel, task.observer)
          THEN /\ pc' = "done"
               /\ UNCHANGED << promise, local, m_activeChannels >>
          ELSE /\ promise' = set_value(promise, "true")
               /\ local' = [local EXCEPT !.wasForegrounded =
                                isChannelForegroundedLocked(m_activeChannels, task.channel),
                                          !.lock = FALSE]
               /\ m_activeChannels' = m_activeChannels \ {task.channel}
               /\ pc' = "release_notify"
    /\ roundTrip' = IF doesObserverOwnChannel(task.channel, task.observer)
                        /\ roundTrip.channel = task.channel
                        /\ roundTrip.observer = task.observer
                        THEN roundTrip ELSE NoRoundTrip
    /\ UNCHANGED << envVars, focus, observer, activityId, queue, task, stopCaller, ret,
                    log, lastSeen >>

\* FocusManager::releaseChannelHelper, up to lock.unlock(): the ownership test,
\* the promise, and the part under the mutex.
releaseChannelHelperLocked ==
    /\ pc = "release"
    /\ IF ~doesObserverOwnChannel(task.channel, task.observer)
          THEN /\ promise' = set_value(promise, "false")
               /\ pc' = "done"
               /\ UNCHANGED << local, m_activeChannels >>
          ELSE /\ promise' = set_value(promise, "true")
               /\ local' = [local EXCEPT !.wasForegrounded =
                                isChannelForegroundedLocked(m_activeChannels, task.channel),
                                          !.lock = FALSE]
               /\ m_activeChannels' = m_activeChannels \ {task.channel}
               /\ pc' = "release_notify"
    /\ roundTrip' = IF doesObserverOwnChannel(task.channel, task.observer)
                        /\ roundTrip.channel = task.channel
                        /\ roundTrip.observer = task.observer
                        THEN roundTrip ELSE NoRoundTrip
    /\ UNCHANGED << envVars, focus, observer, activityId, queue, task, stopCaller, ret,
                    log, lastSeen >>

\* A releaseChannelHelper without the setFocus(NONE).
releaseChannelHelperNotifyNoNone ==
    /\ pc = "release_notify"
    /\ pc' = IF local.wasForegrounded THEN "foreground" ELSE "done"
    /\ UNCHANGED << envVars, chanVars, queue, task, local, promise, stopCaller, ret, log,
                    lastSeen, roundTrip >>

\* A releaseChannelHelper that never calls foregroundHighestPriorityActiveChannel.
releaseChannelHelperNotifyNoForeground ==
    /\ pc = "release_notify"
    /\ Commit(setFocus(World, task.channel, NONE))
    /\ pc' = "done"
    /\ UNCHANGED << envVars, activityId, m_activeChannels, queue, task, local, promise,
                    stopCaller, ret, roundTrip >>

\* FocusManager::releaseChannelHelper, after the unlock.
releaseChannelHelperNotify ==
    /\ pc = "release_notify"
    /\ Commit(setFocus(World, task.channel, NONE))
    /\ pc' = IF local.wasForegrounded THEN "foreground" ELSE "done"
    /\ UNCHANGED << envVars, activityId, m_activeChannels, queue, task, local, promise,
                    stopCaller, ret, roundTrip >>

\* FocusManager::stopForegroundActivityHelper, up to lock.unlock(): the
\* stopActivity test and the part under the mutex.
stopForegroundActivityHelperLocked ==
    /\ pc = "stop"
    /\ IF ~stopActivity(task.channel, task.activityId)
          THEN /\ pc' = "done"
               /\ UNCHANGED << activityId, m_activeChannels >>
          ELSE /\ activityId' = [activityId EXCEPT ![task.channel] = EmptyId]
               /\ m_activeChannels' = m_activeChannels \ {task.channel}
               /\ pc' = "foreground"
    /\ roundTrip' = NoRoundTrip
    /\ UNCHANGED << envVars, focus, observer, queue, task, local, promise, stopCaller,
                    ret, log, lastSeen >>

\* FocusManager::foregroundHighestPriorityActiveChannel, the part under the mutex.
foregroundHighestPriorityActiveChannelLocked ==
    /\ pc = "foreground"
    /\ local' = [local EXCEPT !.channelToForeground =
                                   getHighestPriorityActiveChannelLocked(m_activeChannels),
                               !.lock = FALSE]
    /\ pc' = "foreground_notify"
    /\ UNCHANGED << envVars, chanVars, queue, task, promise, stopCaller, ret, log,
                    lastSeen, roundTrip >>

\* FocusManager::foregroundHighestPriorityActiveChannel, after the unlock.
foregroundHighestPriorityActiveChannelNotify ==
    /\ pc = "foreground_notify"
    /\ IF local.channelToForeground # NullChannel
          THEN Commit(setFocus(World, local.channelToForeground, FOREGROUND))
          ELSE UNCHANGED worldVars
    /\ pc' = "done"
    /\ UNCHANGED << envVars, activityId, m_activeChannels, queue, task, local, promise,
                    stopCaller, ret, roundTrip >>

\* ------------------------------------------------------------ specification
AcquireCall == \E n \in ChannelNames, a \in clients : acquireChannel(n, a.observer, a.id)

ReleaseCall == \E n \in ChannelNames, a \in clients : releaseChannel(n, a.observer)

Next ==
    \/ AcquireCall
    \/ ReleaseCall
    \/ stopForegroundActivityCapture
    \/ stopForegroundActivitySubmit
    \/ Dequeue
    \/ Finish
    \/ acquireChannelHelperLocked
    \/ acquireChannelHelperNotify
    \/ releaseChannelHelperLocked
    \/ releaseChannelHelperNotify
    \/ stopForegroundActivityHelperLocked
    \/ foregroundHighestPriorityActiveChannelLocked
    \/ foregroundHighestPriorityActiveChannelNotify

Spec == Init /\ [][Next]_vars

\* The steps of the executor's worker thread.
Worker ==
    \/ Dequeue
    \/ Finish
    \/ acquireChannelHelperLocked
    \/ acquireChannelHelperNotify
    \/ releaseChannelHelperLocked
    \/ releaseChannelHelperNotify
    \/ stopForegroundActivityHelperLocked
    \/ foregroundHighestPriorityActiveChannelLocked
    \/ foregroundHighestPriorityActiveChannelNotify

\* The worker thread is scheduled fairly: it does not stop while it has a task
\* to run or to take from the queue.
FairSpec == Spec /\ WF_vars(Worker)

TypeOK ==
    /\ focus \in [Channels -> FocusState]
    /\ observer \in [Channels -> Observers \cup {NullObserver}]
    /\ m_activeChannels \subseteq Channels
    /\ Len(queue) <= MaxQueue + 1

\* ------------------------------------------- the constructor on any input
\* The longest configuration list handed to the constructor.
MaxConfigs == 3

ConfigNames == {"A", "B"}

ConfigPriorities == {100, 200}

\* The argument of the constructor: any list of (name, priority) entries,
\* repetitions of names and of priorities included.
ConfigLists ==
    UNION { [1 .. n -> [name : ConfigNames, priority : ConfigPriorities]] :
              n \in 0 .. MaxConfigs }

\* The state the constructor starts in: no channel is registered.
InitConstruct ==
    /\ channelConfigurations \in ConfigLists
    /\ m_allChannels = {}
    /\ clients = {}
    /\ focus = << >>
    /\ observer = << >>
    /\ activityId = << >>
    /\ m_activeChannels = {}
    /\ queue = << >>
    /\ task = NoTask
    /\ pc = "construct"
    /\ local = NoLocal
    /\ promise = "none"
    /\ stopCaller = NoSnapshot
    /\ ret = Returned("none", "", "none")
    /\ log = << >>
    /\ lastSeen = << >>
    /\ roundTrip = NoRoundTrip

\* FocusManager::FocusManager: the loop over channelConfigurations; each
\* registered entry gets a new Channel, which starts vacant.
FocusManagerConstructor ==
    /\ pc = "construct"
    /\ m_allChannels' = Construct({}, channelConfigurations)
    /\ focus' = [c \in {x.name : x \in m_allChannels'} |-> NONE]
    /\ observer' = [c \in {x.name : x \in m_allChannels'} |-> NullObserver]
    /\ activityId' = [c \in {x.name : x \in m_allChannels'} |-> EmptyId]
    /\ lastSeen' = [c \in {x.name : x \in m_allChannels'} |-> << >>]
    /\ pc' = "idle"
    /\ UNCHANGED << channelConfigurations, clients, m_activeChannels, queue, task, local,
                    promise, stopCaller, ret, log, roundTrip >>

NextConstruct == FocusManagerConstructor

SpecConstruct == InitConstruct /\ [][NextConstruct]_vars

\* ------------------------------------------------------------------ claims
\* The executor's queue is empty and no task is running.
Settled == pc = "idle" /\ queue = << >>

\* The highest-priority member of the active set, or nullptr.
Top == getHighestPriorityActiveChannelLocked(m_activeChannels)

\* The task the worker thread is running has made all its changes.
Ended(kind) == pc = "done" /\ task.kind = kind

\* The callbacks in the log, as a set of positions.
LogIndex == 1 .. Len(log)

\* A step of the caller thread: a call returns, or a task is submitted.
CallerStep == ret' # ret \/ (queue' # queue /\ task' = task)

\* A step of the worker thread: its position changes.
WorkerStep == pc' # pc

\* C1. Unique foreground: in every settled state at most one channel has cached
\* focus FOREGROUND, and that channel has a higher priority than every other
\* channel whose cached focus is not NONE.
C1_UniqueForeground ==
    Settled =>
        \A c \in Channels :
            focus[c] = FOREGROUND =>
                \A d \in Channels \ {c} :
                    /\ focus[d] # FOREGROUND
                    /\ focus[d] # NONE => ChannelGreater(c, d)

\* C2. Active iff non-NONE: in every settled state a channel is in the active
\* set exactly when its cached focus is not NONE.
C2_ActiveIffNonNone ==
    Settled => \A c \in Channels : (c \in m_activeChannels) <=> (focus[c] # NONE)

\* C3. Roles inside the active set: in every settled state with a non-empty
\* active set, its highest-priority member has cached focus FOREGROUND and every
\* other member has cached focus BACKGROUND.
C3_RolesInActiveSet ==
    Settled /\ m_activeChannels # {} =>
        /\ focus[Top] = FOREGROUND
        /\ \A c \in m_activeChannels \ {Top} : focus[c] = BACKGROUND

\* Two channels are active in a settled state.
C3_Witness == Settled /\ Cardinality(m_activeChannels) = 2

\* C4. Higher preempts, loser first: when an acquire task has run for a channel C
\* of strictly higher priority than the channel P that was the highest-priority
\* active channel, P's observer was told BACKGROUND before C's observer was told
\* FOREGROUND, and C ends FOREGROUND and P ends BACKGROUND.
C4_HigherPreempts ==
    Ended("acquire") /\ local.foregroundChannel # NullChannel
                     /\ local.foregroundChannel # task.channel
                     /\ ChannelGreater(task.channel, local.foregroundChannel) =>
        /\ \E i, j \in LogIndex :
              /\ i < j
              /\ log[i] = << local.foregroundChannel, observer[local.foregroundChannel],
                             BACKGROUND >>
              /\ log[j] = << task.channel, task.observer, FOREGROUND >>
        /\ focus[task.channel] = FOREGROUND
        /\ focus[local.foregroundChannel] = BACKGROUND

\* C5. Lower does not preempt: when an acquire task has run for a channel C of
\* strictly lower priority than the foreground channel P, C ends BACKGROUND and
\* its observer was told BACKGROUND, P is still FOREGROUND and P's observer got
\* no callback during the task.
C5_LowerDoesNotPreempt ==
    Ended("acquire") /\ local.foregroundChannel # NullChannel
                     /\ ChannelGreater(local.foregroundChannel, task.channel) =>
        /\ focus[task.channel] = BACKGROUND
        /\ \E i \in LogIndex : log[i] = << task.channel, task.observer, BACKGROUND >>
        /\ focus[local.foregroundChannel] = FOREGROUND
        /\ \A i \in LogIndex : log[i][1] # local.foregroundChannel

\* The state a release task that found its channel foregrounded ends in.
ReleaseOfForegroundDone ==
    Ended("release") /\ local.wasForegrounded =>
        /\ promise = "true"
        /\ Len(log) >= 1
        /\ log[1] = << task.channel, task.observer, NONE >>
        /\ task.channel \notin m_activeChannels
        /\ focus[task.channel] = NONE
        /\ IF m_activeChannels = {}
              THEN Len(log) = 1
              ELSE /\ focus[Top] = FOREGROUND
                   /\ Len(log) = 2
                   /\ log[2] = << Top, observer[Top], FOREGROUND >>

\* The step after the unlock of a release task that found its channel not
\* foregrounded.
ReleaseOfBackgroundStep ==
    WorkerStep /\ pc = "release_notify" /\ ~local.wasForegrounded =>
        /\ \A d \in Channels \ {task.channel} : focus'[d] = focus[d]
        /\ pc' = "done"

\* C6. Release restores: when the owning observer has released the channel that
\* was the highest-priority active channel, the promise holds true, the first
\* callback of the task told the releasing observer NONE, the channel is out of
\* the active set, and the highest-priority remaining active channel, if any, is
\* FOREGROUND and its observer was told so next; and the step that sets the
\* focus of a released channel that was not the foreground one changes no other
\* channel's focus and ends the task.
C6_ReleaseRestores == [](ReleaseOfForegroundDone) /\ [][ReleaseOfBackgroundStep]_vars

\* The owner has released the foreground channel and another channel was
\* promoted.
C6_Witness ==
    Ended("release") /\ local.wasForegrounded /\ m_activeChannels # {}

\* The first step of a release task whose observer is not the channel's.
WrongObserverStep ==
    WorkerStep /\ pc = "release" /\ observer[task.channel] # task.observer =>
        /\ promise' = "false"
        /\ pc' = "done"
        /\ log = << >> /\ log' = << >>
        /\ UNCHANGED << chanVars, lastSeen >>

\* C7. Wrong-observer release: the step of a release task whose observer is not
\* the channel's current observer sets the promise to false and ends the task,
\* with no callback made and the active set and every channel's focus, observer
\* and activity id unchanged.
C7_WrongObserverRelease == [][WrongObserverStep]_vars

\* A release by an observer that does not own the channel, which is active and
\* owned by another observer, has ended.
C7_Witness ==
    /\ Ended("release") /\ promise = "false"
    /\ observer[task.channel] \notin {NullObserver, task.observer}
    /\ task.channel \in m_activeChannels

\* A return of acquireChannel or releaseChannel.
AcquireOrReleaseReturn ==
    CallerStep =>
        /\ ret'.op \in {"acquireChannel", "releaseChannel"}
              /\ ret'.name \notin {c.name : c \in m_allChannels} =>
                 /\ ret'.value = "false"
                 /\ UNCHANGED << queue, task, pc, local, promise, stopCaller, chanVars,
                                 log, lastSeen >>
        /\ ret'.op = "acquireChannel"
              /\ ret'.name \in {c.name : c \in m_allChannels} =>
                 /\ ret'.value = "true"
                 /\ Len(queue') = Len(queue) + 1
                 /\ SubSeq(queue', 1, Len(queue)) = queue
                 /\ queue'[Len(queue')].kind = "acquire"
                 /\ queue'[Len(queue')].channel = ret'.name
                 /\ UNCHANGED << task, pc, local, promise, stopCaller, chanVars,
                                 log, lastSeen >>

\* C8. Unknown channel name: acquireChannel with a name that is not registered
\* returns false, releaseChannel with such a name returns a future that holds
\* false, and neither submits a task, makes a callback or changes a channel or
\* the active set; acquireChannel with a registered name returns true and
\* appends exactly one task, an acquire of that channel.
C8_UnknownName == [][AcquireOrReleaseReturn]_vars

\* releaseChannel with the unregistered name has returned while a task was
\* waiting in the queue.
C8_Witness ==
    /\ ret = Returned("releaseChannel", "Unknown", "false")
    /\ queue # << >>

\* The states of a stop task that found the captured activity id unchanged.
StopDone ==
    /\ task.kind = "stop" /\ pc \in {"foreground", "foreground_notify"} =>
           /\ task.channel \notin m_activeChannels
           /\ activityId[task.channel] = EmptyId
    /\ Ended("stop") /\ local.channelToForeground # NullChannel =>
           /\ task.channel \notin m_activeChannels
           /\ activityId[task.channel] = EmptyId
           /\ local.channelToForeground = Top
           /\ focus[Top] = FOREGROUND
           /\ lastSeen[Top][observer[Top]] = FOREGROUND

\* A return of stopForegroundActivity called while no channel was active.
StopWhenNoneActiveStep ==
    CallerStep /\ ret'.op = "stopForegroundActivity" /\ stopCaller = NoSnapshot
               /\ m_activeChannels = {} =>
        UNCHANGED << queue, task, pc, local, promise, stopCaller, chanVars, log, lastSeen >>

\* C9. Stop foreground: once a stop task has found the captured activity id
\* unchanged, the captured channel is out of the active set with an empty
\* activity id, and when the task ends the highest-priority remaining active
\* channel, if any, is FOREGROUND and the last state its observer was told is
\* FOREGROUND; and a stopForegroundActivity call made while no channel is active
\* submits no task and changes nothing.
C9_StopForeground == [](StopDone) /\ [][StopWhenNoneActiveStep]_vars

\* The first step of a stop task whose captured channel is no longer the
\* highest-priority active channel.
StaleStopStep ==
    WorkerStep /\ pc = "stop" /\ task.channel # Top =>
        /\ pc' = "done"
        /\ UNCHANGED << chanVars, log, lastSeen >>

\* C10. Stale stop is a no-op: the step of a stop task whose captured channel is
\* no longer the highest-priority active channel ends the task and changes no
\* channel's focus, observer or activity id, nor the active set, and makes no
\* callback.
C10_StaleStopNoop == [][StaleStopStep]_vars

\* The first step of the task of a stopForegroundActivity call that directly
\* followed another one and captured another channel than that one did.
SecondStopStep ==
    WorkerStep /\ pc = "stop" /\ task.afterStopOf \notin {NullChannel, task.channel} =>
        /\ pc' = "done"
        /\ UNCHANGED << chanVars, log, lastSeen >>

\* C11. Double stop: when stopForegroundActivity is called twice in a row, the
\* task of the second call removes no channel from the active set, clears no
\* activity id and makes no callback, unless it captured the very channel the
\* first call captured (then the two tasks together do what one does).
C11_DoubleStop == [][SecondStopStep]_vars

\* C12. Acquire/release round trip: when the release of channel C by observer O
\* has run directly after the acquire task of C for O, the active set is the one
\* the acquire task found, and the last state O received from C is NONE.
C12_RoundTrip ==
    Ended("release") /\ promise = "true" /\ roundTrip.channel = task.channel
                     /\ roundTrip.observer = task.observer =>
        /\ m_activeChannels = roundTrip.active
        /\ lastSeen[task.channel][task.observer] = NONE

\* C12, amended. Acquire/release round trip of a channel that was not active:
\* when the release of channel C by observer O has run directly after the
\* acquire task of C for O, and C was not in the active set the acquire task
\* found, the active set is that set again, and the last state O received from C
\* is NONE.
C12_RoundTripOfInactive ==
    Ended("release") /\ promise = "true" /\ roundTrip.channel = task.channel
                     /\ roundTrip.observer = task.observer
                     /\ task.channel \notin roundTrip.active =>
        /\ m_activeChannels = roundTrip.active
        /\ lastSeen[task.channel][task.observer] = NONE

\* Content was acquired while Dialog alone was active, and released again.
C12_Witness ==
    /\ Ended("release") /\ promise = "true"
    /\ roundTrip.channel = task.channel /\ roundTrip.observer = task.observer
    /\ task.channel \notin roundTrip.active
    /\ roundTrip.active # {}

\* The state channel log'[i][1] delivered to observer log'[i][2] before the
\* callback at position i of the next state's log.
PreviousDelivery(i) ==
    LET same == { j \in (Len(log) + 1) .. (i - 1) :
                    log'[j][1] = log'[i][1] /\ log'[j][2] = log'[i][2] }
    IN  IF same = {}
           THEN lastSeen[log'[i][1]][log'[i][2]]
           ELSE log'[CHOOSE j \in same : \A k \in same : k <= j][3]

RedundantCallbackFree ==
    WorkerStep /\ Len(log') > Len(log) =>
        \A i \in (Len(log) + 1) .. Len(log') : log'[i][3] # PreviousDelivery(i)

\* C13. No redundant callbacks: no callback a channel makes to an observer
\* carries the state of the previous callback that channel made to that
\* observer, re-acquiring with the same observer and acquiring after a stop
\* included.
C13_NoRedundantCallbacks == [][RedundantCallbackFree]_vars

\* C14. Observer consistency: in a settled state, every channel that has an
\* observer has last told that observer the channel's cached focus state.
C14_ObserverConsistency ==
    Settled =>
        \A c \in Channels :
            observer[c] # NullObserver => lastSeen[c][observer[c]] = focus[c]

\* Entry i of the configuration list is registered: no registered entry before
\* it has its name or its priority.
RECURSIVE IsRegistered(_)
IsRegistered(i) ==
    \A j \in 1 .. (i - 1) :
        IsRegistered(j) =>
            /\ channelConfigurations[j].name # channelConfigurations[i].name
            /\ channelConfigurations[j].priority # channelConfigurations[i].priority

\* C15. Configuration uniqueness: once the constructor has run, the registered
\* channels are exactly the entries whose name and priority both differ from
\* those of every entry registered earlier in the list; the registered channels
\* have pairwise distinct names and pairwise distinct priorities; a non-empty
\* list registers its first entry.
C15_ConfigUniqueness ==
    pc # "construct" =>
        /\ m_allChannels =
               { channelConfigurations[i] :
                   i \in { k \in 1 .. Len(channelConfigurations) : IsRegistered(k) } }
        /\ \A c, d \in m_allChannels :
               c # d => c.name # d.name /\ c.priority # d.priority
        /\ channelConfigurations # << >> => Head(channelConfigurations) \in m_allChannels

\* The list [(A,100),(B,100),(A,200)] registers only A at priority 100.
C15_Witness ==
    /\ pc = "idle"
    /\ channelConfigurations = << [name |-> "A", priority |-> 100],
                                  [name |-> "B", priority |-> 100],
                                  [name |-> "A", priority |-> 200] >>
    /\ m_allChannels = { [name |-> "A", priority |-> 100] }

\* The callbacks a step adds to the log, as positions of the next state's log.
NewCallbacks == (Len(log) + 1) .. Len(log')

\* The acquire task replaces the observer of its channel by a different one:
\* its first callback is NONE to the observer in place, none of its later
\* callbacks is one of that channel to that observer, and the new observer is
\* installed.
ObserverReplacedStep ==
    WorkerStep /\ pc = "acquire_notify"
               /\ observer[task.channel] \notin {NullObserver, task.observer} =>
        /\ NewCallbacks # {}
        /\ log'[Len(log) + 1] = << task.channel, observer[task.channel], NONE >>
        /\ \A i \in NewCallbacks \ {Len(log) + 1} :
               ~(log'[i][1] = task.channel /\ log'[i][2] = observer[task.channel])
        /\ observer'[task.channel] = task.observer

\* A channel calls only the observer it has before or after the step.
CallbackToInstalledStep ==
    WorkerStep =>
        \A i \in NewCallbacks :
            log'[i][2] \in {observer[log'[i][1]], observer'[log'[i][1]]}

\* C16. Observer replacement: when an acquire task runs on a channel that has an
\* observer O_old and supplies a different observer O_new, O_old receives NONE
\* before O_new receives any callback, and the channel makes no callback to
\* O_old afterwards.
C16_ObserverReplacement == [][ObserverReplacedStep /\ CallbackToInstalledStep]_vars

\* An acquire task has replaced an observer: the old one was told NONE first,
\* the new one FOREGROUND after it.
C16_Witness ==
    /\ Ended("acquire")
    /\ Len(log) = 2
    /\ log[1][1] = task.channel /\ log[1][2] # task.observer /\ log[1][3] = NONE
    /\ log[2] = << task.channel, task.observer, FOREGROUND >>
    /\ observer[task.channel] = task.observer

\* In the queue every stop task is ahead of every acquire and release task.
StopsFirst ==
    \A i, j \in 1 .. Len(queue) :
        i < j /\ queue[j].kind = "stop" => queue[i].kind = "stop"

\* The queue changes in three ways only: the idle worker starts the task at the
\* head; an acquire or release task is put behind all queued tasks; a stop task
\* is put ahead of all queued tasks. A submission leaves the running task and
\* its position alone.
QueueStep ==
    queue' # queue =>
        \/ /\ pc = "idle" /\ queue # << >>
           /\ task' = Head(queue) /\ queue' = Tail(queue) /\ pc' = Head(queue).kind
        \/ /\ Len(queue') = Len(queue) + 1
           /\ queue' = Append(queue, queue'[Len(queue')])
           /\ queue'[Len(queue')].kind \in {"acquire", "release"}
           /\ task' = task /\ pc' = pc
        \/ /\ Len(queue') = Len(queue) + 1
           /\ queue' = << queue'[1] >> \o queue
           /\ queue'[1].kind = "stop"
           /\ task' = task /\ pc' = pc

\* A task starts only when the task before it has returned, and it is the head
\* of the queue.
StartStep ==
    task' # task /\ task' # NoTask =>
        pc = "idle" /\ queue # << >> /\ task' = Head(queue) /\ queue' = Tail(queue)

CallbackOutsideMutexStep == log' # log /\ log' # << >> => ~local.lock /\ ~local'.lock

\* A caller that wants m_mutex gets it: stopForegroundActivity can take its
\* snapshot wherever the worker thread is, between the unlock and the callbacks
\* of a helper included. acquireChannel and releaseChannel take no mutex; a call
\* an observer makes from inside a callback finds the mutex as the worker thread
\* left it before the callback.
NeverBlocked ==
    /\ ~local.lock
    /\ stopCaller = NoSnapshot => ENABLED stopForegroundActivityCapture

\* C18. Callbacks outside the mutex: at every observer callback, in the acquire,
\* release, stop and promote paths, the worker thread does not own m_mutex, and
\* in no reachable state is a thread that calls stopForegroundActivity, or an
\* observer that calls back into FocusManager, kept waiting for the mutex.
C18_CallbacksOutsideMutex == [] NeverBlocked /\ [][CallbackOutsideMutexStep]_vars

\* A caller of stopForegroundActivity has taken the mutex and its snapshot while
\* the first acquire task of a channel was between its unlock and its callbacks.
C18_Witness ==
    /\ pc = "acquire_notify"
    /\ lastSeen[task.channel][task.observer] = "never"
    /\ m_activeChannels = {task.channel}
    /\ stopCaller # NoSnapshot
    /\ stopCaller.channel = task.channel
    /\ stopCaller.activityId = task.activityId
    /\ ~local.lock

\* C19. Vacant channel is empty: in every settled state, every channel whose
\* cached focus is NONE has no observer and an empty activity id, a channel that
\* was released successfully included.
C19_VacantChannelEmpty ==
    Settled =>
        \A c \in Channels :
            focus[c] = NONE => observer[c] = NullObserver /\ activityId[c] = EmptyId

\* The release tasks releaseChannel can submit, over all environments.
ReleaseTasks ==
    UNION { { [kind |-> "release", channel |-> env.config[i].name,
               observer |-> a.observer, activityId |-> EmptyId,
               afterStopOf |-> NullChannel] :
                 i \in DOMAIN env.config, a \in env.clients } : env \in Environments }

\* The promise is never set twice; a release task that has made all its changes
\* has set it; a call with an unknown name has set it to false before it returns.
PromiseSetOnce ==
    /\ promise # "twice"
    /\ Ended("release") => promise \in {"true", "false"}
    /\ ret.op = "releaseChannel" /\ getChannel(ret.name) = NullChannel => ret.value = "false"
    /\ ret.op = "releaseChannel" /\ getChannel(ret.name) # NullChannel => ret.value = "unset"

\* The promise changes from unset to a value, in the step of the release task
\* that tests the ownership, and changes no more until the task returns.
PromiseStep ==
    promise' # promise /\ promise # "none" /\ promise' # "none" =>
        /\ promise = "unset" /\ promise' \in {"true", "false"}
        /\ pc = "release" /\ task.kind = "release"

\* A submitted release task is started, and sets its promise.
ReleaseFulfilled ==
    \A t \in ReleaseTasks :
        (\E i \in 1 .. Len(queue) : queue[i] = t)
            ~> (task = t /\ pc = "done" /\ promise \in {"true", "false"})

\* C20. Release future resolves exactly once: under fair scheduling of the
\* worker thread every releaseChannel call's future is eventually fulfilled,
\* and on every path (unknown channel, observer mismatch, success) the promise
\* is set exactly once, never twice and never left unset.
C20_ReleaseFutureOnce == [] PromiseSetOnce /\ [][PromiseStep]_vars /\ ReleaseFulfilled

\* A release task by an observer that does not own the channel has been started
\* and has set the promise, to false; the caller has gone on to
\* stopForegroundActivity meanwhile.
C20_Witness ==
    /\ Ended("release")
    /\ promise = "false"
    /\ observer[task.channel] # task.observer
    /\ ret.op = "stopForegroundActivity"

====
